---- MODULE Spec2Model ----
(***************************************************************************)
(* Model of the gonio-imsoft imaging rig software.                         *)
(*                                                                         *)
(* Dynamic.image_series3 (src/core.py) is modelled statement by statement  *)
(* as a state machine over the fields of the Dynamic object, the locals of *)
(* the call, the wall clock and the output channels it writes.             *)
(*                                                                         *)
(* Time is counted in ticks of 10 ms, the period of the polling sleep.     *)
(* core.py calls self.reader.get_latest(); the reader in                   *)
(* src/arduino_serial.py spells that method getLatest.  The model reads    *)
(* the call as that method.                                                *)
(***************************************************************************)
EXTENDS Integers, Sequences, FiniteSets, TLC

VARIABLES
    now,                \* time.time(), in ticks of 10 ms
    run,                \* number of image_series3 calls made so far
    pc,                 \* position of the orchestration thread in image_series3
    isi_slept_time,     \* Dynamic.isi_slept_time (NoAttribute until assigned)
    dynamic_parameters, \* Dynamic.dynamic_parameters
    dp,                 \* the local deep copy, after list coercion
    inter_loop_callback,\* the argument of the call: "none" or "func"
    exit_imaging,       \* local flag
    i,                  \* loop variable of the repeat loop
    wakeup_time,        \* local of the inter-trial wait
    trial,              \* locals of the repeat: N_frames, label, stimulus
    imaging_angle,      \* local snapshot of the goniometer position
    latest_angle,       \* ArduinoReader.latest_angle
    offset,             \* ArduinoReader.offset
    ir_level,           \* last value written to the ir_channel output
    flash_level,        \* last value written to the flash_channel output
    error,              \* exception that left image_series3, "" if none
    log,                \* calls received by the camera server, the DAQ and
                        \* the callback during the current image_series3 call
    link,               \* CameraClient.sendCommand: the call in progress
    motors,             \* Dynamic.motors: position, limits, thread of each
    target,             \* the position each motor was last told to move to
    call,               \* the last call made on a motor or on the rig
    ops,                \* number of such calls made so far
    macro,              \* Dynamic.macro
    i_macro,            \* Dynamic.i_macro
    waittime,           \* Dynamic.waittime
    step_seen,          \* when a tick first looked at the current macro step
    task,               \* the last Dynamic.analog_output call
    builder,            \* a StimulusBuilder and what its methods returned
    spacing_due,        \* set when the last image_series3 call was aborted:
                        \* the end of its last playback plus that repeat's isi
    clients,            \* the CameraClient instances created so far
    port_running_index  \* the class attribute CameraClient.port_running_index

vars == <<now, run, pc, isi_slept_time, dynamic_parameters, dp,
          inter_loop_callback, exit_imaging, i, wakeup_time, trial,
          imaging_angle, latest_angle, offset, ir_level, flash_level,
          error, log, link, motors, target, call, ops, macro, i_macro,
          waittime, step_seen, task, builder, spacing_due, clients,
          port_running_index>>

\* The state of image_series3 and of the outputs it writes.
imagingVars == <<run, pc, isi_slept_time, dynamic_parameters, dp,
                 inter_loop_callback, exit_imaging, i, wakeup_time, trial,
                 imaging_angle, ir_level, flash_level, error, log>>
readerVars == <<latest_angle, offset>>
motorVars == <<motors, target, call, ops>>
macroVars == <<macro, i_macro, waittime, step_seen>>
clientVars == <<clients, port_running_index>>
outputVars == <<task, builder, spacing_due, clientVars>>

\* What image_series3 does not touch.
restVars == <<link, motors, target, call, ops, macro, i_macro, waittime,
              step_seen, task, builder, spacing_due, clientVars>>

\* The same without the record of an aborted call.
callRest == <<link, motors, target, call, ops, macro, i_macro, waittime,
              step_seen, task, builder, clientVars>>

-----------------------------------------------------------------------------
(* Bounds of the model *)

MaxRepeats == 3         \* largest value of the 'repeats' parameter
MaxRuns == 2            \* number of consecutive image_series3 calls
MaxListLen == 3         \* longest list given for a per-repeat parameter
MaxRetryBudget == 2     \* largest 'retries' argument given to sendCommand
MaxSendCalls == 2       \* number of consecutive sendCommand calls
MaxResponseLen == 3     \* longest response the server sends, in characters
MaxOps == 3             \* number of calls made on the motors and the rig
MaxPos == 3             \* motor positions and targets lie in -MaxPos..MaxPos
MaxTicks == 4           \* number of run_macro and tick calls
MaxSamples == 2         \* samples of a waveform given to analog_output

-----------------------------------------------------------------------------
(* Program constants, in ticks of 10 ms where they are durations *)

TICKS_PER_S == 100
SETTLE_SLEEP == 50      \* time.sleep(0.5) after switching to ir_imaging
ISI_ADVANCE == 50       \* the 0.5 subtracted from isi[i] for wakeup_time
POLL_SLEEP == 1         \* time.sleep(0.01) in the inter-trial wait
RETRY_INTERVAL == 100   \* seconds between connection attempts: 1 s
MAX_RETRIES == 100
fs == 1000              \* sampling frequency used by image_series3

\* An attribute that is not assigned yet: reading it raises AttributeError.
NoAttribute == [set |-> FALSE, at |-> 0]
Attribute(v) == [set |-> TRUE, at |-> v]

-----------------------------------------------------------------------------
(* Parameter values the model draws from *)

IsiShort == 30          \* an isi shorter than ISI_ADVANCE: 0.3 s
IsiLong == 52           \* an isi longer than ISI_ADVANCE: 0.52 s
CallerPause == 100      \* a pause of the caller between two calls: 1 s

Scalar(v) == [kind |-> "scalar", val |-> v]
List(s) == [kind |-> "list", val |-> s]

\* The fields of dynamic_parameters that image_series3 reads.  Durations are
\* in ticks, output levels in tenths of a volt.
Parameters(repeats, isi, flash_on) ==
    [repeats |-> repeats, isi |-> isi, flash_on |-> flash_on,
     pre_stim |-> 1, stim |-> 1, post_stim |-> 1, frame_length |-> 1,
     ir_imaging |-> 5, ir_waiting |-> 2, ir_livefeed |-> 3, flash_off |-> 0]

IsiChoices == {Scalar(IsiLong), List(<<IsiShort, IsiLong>>)}

\* Every shape a per-repeat parameter can be given in: a scalar, or a list of
\* up to MaxListLen entries.
ParamValues == {1, 2}
ParamShapes ==
    {Scalar(v) : v \in ParamValues}
        \cup {List(l) : l \in UNION {[1..k -> ParamValues] : k \in 0..MaxListLen}}

-----------------------------------------------------------------------------
(* Pure helpers *)

\* A list of wrong length is kept as it is.
CoerceParam_KeepWrongLength(p, repeats) ==
    IF p.kind # "list"
    THEN [ok |-> TRUE, list |-> [k \in 1..repeats |-> p.val]]
    ELSE [ok |-> TRUE, list |-> p.val]

\* core.py 356-362: one per-repeat parameter made a list of 'repeats' entries.
\* [x] * n is the list of n copies of x; p[0] of an empty list raises
\* IndexError.
CoerceParam(p, repeats) ==
    IF p.kind # "list"
    THEN [ok |-> TRUE, list |-> [k \in 1..repeats |-> p.val]]
    ELSE IF Len(p.val) # repeats
         THEN IF Len(p.val) = 0
              THEN [ok |-> FALSE, list |-> <<>>]
              ELSE [ok |-> TRUE, list |-> [k \in 1..repeats |-> p.val[1]]]
         ELSE [ok |-> TRUE, list |-> p.val]

\* core.py 380: N_frames = int((pre_stim + stim + post_stim) / frame_length)
NFrames(d) == (d.pre_stim + d.stim + d.post_stim) \div d.frame_length

\* Sample count of the synthesized stimulus: int(t*fs) samples per window.
StimulusLen(d) ==
    ((d.pre_stim * fs) \div TICKS_PER_S) + ((d.stim * fs) \div TICKS_PER_S)
        + ((d.post_stim * fs) \div TICKS_PER_S)

\* Nominal playing time of n samples, in ticks.
PlayTicks(n) == (n * TICKS_PER_S) \div fs

\* core.py 119: wait_until_done(timeout=len(stimuli[0])*fs*1.5), in ticks.
TimeoutTicks(n) == (n * fs * 3 * TICKS_PER_S) \div 2

\* camera_client.py 74-89: sendCommand when the first 'refusals' connection
\* attempts are refused: the command is sent, or the error is raised once
\* tries > retries; every refusal but the raising one sleeps RETRY_INTERVAL.
SendCommand(refusals, retries) ==
    IF refusals > retries
    THEN [sent |-> FALSE, slept |-> retries * RETRY_INTERVAL]
    ELSE [sent |-> TRUE, slept |-> refusals * RETRY_INTERVAL]

\* The server is up, or down for the whole call.
Refusals == {0, MAX_RETRIES + 1}

\* One entry of the call log.
Ev(op, rep, ret, val) == [op |-> op, rep |-> rep, ret |-> ret, val |-> val, t |-> now]

NoTrial == [N_frames |-> 0, label |-> <<<<0, 0>>, 0>>, stimulus |-> 0]

-----------------------------------------------------------------------------
(* State after construction of the camera client, the motors and the macro
   runner *)

\* No sendCommand call has been made yet.
IdleLink ==
    [pc |-> "idle", via |-> "", retries |-> 0, listen |-> FALSE, t0 |-> 0,
     tries |-> 0, attempts |-> 0, refused |-> 0, sleeps |-> 0, sent |-> 0,
     sock |-> "none", response |-> <<>>,
     result |-> [kind |-> "none", val |-> <<>>], error |-> "", calls |-> 0]

\* motors.py 25: limits = [-math.inf, math.inf]; a limit is infinite
\* (inf = -1 or 1) or the finite number 'at'.
NegInf == [inf |-> -1, at |-> 0]
PosInf == [inf |-> 1, at |-> 0]
Finite(v) == [inf |-> 0, at |-> v]
ExtLe(a, b) == IF a.inf # b.inf THEN a.inf < b.inf ELSE (a.inf # 0 \/ a.at <= b.at)
ExtLt(a, b) == IF a.inf # b.inf THEN a.inf < b.inf ELSE (a.inf = 0 /\ a.at < b.at)

\* core.py 63-64: motors 0 and 1 have the sensors 0 and 1, motor 2 has none.
MotorIds == {0, 1, 2}
SensorOf(m) == IF m = 2 THEN NoAttribute ELSE Attribute(m)

\* motors.py 11-32: Motor.__init__
NewMotor(m) ==
    [i_motor |-> m, i_sensor |-> SensorOf(m), position |-> 0,
     limits |-> <<NegInf, PosInf>>, maxmis |-> 5, thread |-> <<>>]

\* Motor.thread is None (the empty sequence here) or the Thread object of a
\* correction loop, written as the one-element sequence of the loop's target.
None == <<>>

NoCall ==
    [op |-> "", motor |-> 0, arg |-> <<>>,
     before |-> [motors |-> <<>>, target |-> <<>>, sensed |-> <<>>],
     pulses |-> <<>>, raised |-> ""]

\* core.py 73: waittime = 0 is the origin of time.time(), which lies before
\* the start of the program, the origin of 'now'.
Epoch == 0 - TICKS_PER_S

\* No analog_output call has been made, no StimulusBuilder built.
NoTask == [op |-> ""]
NoBuilder == [op |-> ""]

\* camera_communication.PORT, the port of the first camera server; ports
\* are counted from it.
PORT == 0

MaxClients == 4

\* camera_client.py 44-55: CameraClient.__init__(host, port).  An argument
\* left out is the host "None" and the port NoAttribute; class_index is the
\* class attribute port_running_index.  'self.port_running_index += 1' reads
\* the class attribute and assigns an attribute of the instance.
CameraClient(host, port, class_index) ==
    [host |-> IF host = "None" THEN "SERVER_HOSTNAME" ELSE host,
     port |-> IF port.set THEN port.at ELSE PORT + class_index,
     port_running_index |-> IF port.set THEN NoAttribute
                            ELSE Attribute(class_index + 1),
     default_port |-> ~port.set]

InitRest ==
    /\ link = IdleLink
    /\ motors = [m \in MotorIds |-> NewMotor(m)]
    /\ target = [m \in MotorIds |-> NoAttribute]
    /\ call = NoCall
    /\ ops = 0
    /\ macro = <<>>
    /\ i_macro = 0
    /\ waittime = Epoch
    /\ step_seen = NoAttribute
    /\ task = NoTask
    /\ builder = NoBuilder
    /\ spacing_due = NoAttribute
    /\ clients = <<CameraClient("None", NoAttribute, 0)>>
    /\ port_running_index = 0

-----------------------------------------------------------------------------
(* State after construction: Dynamic.__init__, ArduinoReader.__init__ *)

Init ==
    /\ now = 0
    /\ run = 0
    /\ pc = "idle"
    /\ isi_slept_time = NoAttribute
    /\ \E r \in 0..MaxRepeats, isi \in IsiChoices :
          dynamic_parameters = Parameters(r, isi, Scalar(8))
    /\ dp = [isi |-> <<>>, flash_on |-> <<>>]
    /\ inter_loop_callback = "none"
    /\ exit_imaging = FALSE
    /\ i = 0
    /\ wakeup_time = 0
    /\ trial = NoTrial
    /\ imaging_angle = <<0, 0>>
    /\ latest_angle = <<0, 0>>
    /\ offset = <<0, 0>>
    /\ ir_level = 0
    /\ flash_level = 0
    /\ error = ""
    /\ log = <<>>
    /\ InitRest

-----------------------------------------------------------------------------
(* Dynamic.image_series3, one action per statement *)

Callable == inter_loop_callback = "func"
Repeats == dynamic_parameters.repeats

\* core.py 334-338: the call.  The caller has paused for d ticks since the
\* previous call returned; the locals are fresh.
\* The call that has just ended, if the callback aborted it after a repeat
\* was played: the end of the last playback plus the isi of that repeat.
PlayedAt == {n \in 1..Len(log) : log[n].op = "play_done"}

SpacingAfterAbort ==
    IF exit_imaging /\ PlayedAt # {}
    THEN LET last == CHOOSE n \in PlayedAt : \A k \in PlayedAt : k <= n
         IN Attribute(log[last].t + dp.isi[log[last].rep + 1])
    ELSE NoAttribute

Call ==
    /\ pc \in {"idle", "returned", "raised"}
    /\ run < MaxRuns
    /\ \E d \in {0, CallerPause}, cb \in {"none", "func"} :
          /\ now' = now + d
          /\ inter_loop_callback' = cb
    /\ run' = run + 1
    /\ exit_imaging' = FALSE
    /\ i' = 0
    /\ wakeup_time' = 0
    /\ trial' = NoTrial
    /\ dp' = [isi |-> <<>>, flash_on |-> <<>>]
    /\ error' = ""
    /\ log' = <<>>
    /\ pc' = "entry"
    /\ spacing_due' = SpacingAfterAbort
    /\ UNCHANGED <<isi_slept_time, dynamic_parameters, imaging_angle,
                   latest_angle, offset, ir_level, flash_level>>
    /\ UNCHANGED callRest

\* core.py 343-349: the time slept on entry.  Reading an unassigned
\* isi_slept_time raises AttributeError, which is passed over.
EntrySleep_Half ==
    IF isi_slept_time.set /\ now < isi_slept_time.at
    THEN (isi_slept_time.at - now) \div 2
    ELSE 0

EntrySleep ==
    IF isi_slept_time.set /\ now < isi_slept_time.at
    THEN isi_slept_time.at - now
    ELSE 0

\* core.py 343-349: wait out the previous sequence's last isi.
EntryWait ==
    /\ pc = "entry"
    /\ now' = now + EntrySleep
    /\ pc' = "coerce"
    /\ UNCHANGED <<run, isi_slept_time, dynamic_parameters, dp,
                   inter_loop_callback, exit_imaging, i, wakeup_time, trial,
                   imaging_angle, latest_angle, offset, ir_level, flash_level,
                   error, log>>
    /\ UNCHANGED restVars

\* core.py 353-362: deep copy, then 'isi' and 'flash_on' are made lists.
Coerce ==
    /\ pc = "coerce"
    /\ LET ci == CoerceParam(dynamic_parameters.isi, Repeats)
           cf == CoerceParam(dynamic_parameters.flash_on, Repeats)
       IN IF ci.ok /\ cf.ok
          THEN /\ dp' = [isi |-> ci.list, flash_on |-> cf.list]
               /\ pc' = "describe"
               /\ error' = error
          ELSE /\ dp' = [isi |-> ci.list, flash_on |-> <<>>]
               /\ pc' = "raised"
               /\ error' = "IndexError"
    /\ UNCHANGED <<now, run, isi_slept_time, dynamic_parameters,
                   inter_loop_callback, exit_imaging, i, wakeup_time, trial,
                   imaging_angle, latest_angle, offset, ir_level, flash_level,
                   log>>
    /\ UNCHANGED restVars

\* arduino_serial.py 26-30, 46-51: the offset corrected latest angle.
GetLatest == <<latest_angle[1] - offset[1], latest_angle[2] - offset[2]>>

\* core.py 364-366: position snapshot, description sent to the camera server.
SaveDescription ==
    /\ pc = "describe"
    /\ imaging_angle' = GetLatest
    /\ \E refusals \in Refusals :
          LET r == SendCommand(refusals, MAX_RETRIES)
          IN /\ now' = now + r.slept
             /\ IF r.sent
                THEN /\ log' = Append(log, [Ev("saveDescription", 0, TRUE, 0)
                                               EXCEPT !.t = now'])
                     /\ pc' = "loop"
                     /\ error' = error
                ELSE /\ log' = log
                     /\ pc' = "raised"
                     /\ error' = "ConnectionRefusedError"
    /\ UNCHANGED <<run, isi_slept_time, dynamic_parameters, dp,
                   inter_loop_callback, exit_imaging, i, wakeup_time, trial,
                   latest_angle, offset, ir_level, flash_level>>
    /\ UNCHANGED restVars

\* core.py 369: for i in range(repeats).  i already holds the next index.
LoopHead ==
    /\ pc = "loop"
    /\ pc' = IF i < Repeats THEN "callback" ELSE "cleanup"
    /\ UNCHANGED <<now, run, isi_slept_time, dynamic_parameters, dp,
                   inter_loop_callback, exit_imaging, i, wakeup_time, trial,
                   imaging_angle, latest_angle, offset, ir_level, flash_level,
                   error, log>>
    /\ UNCHANGED restVars

\* core.py 376-377: if exit_imaging: break
BreakIfExit_Never(exit) == "synthesize"

BreakIfExit(exit) == IF exit THEN "cleanup" ELSE "synthesize"

\* core.py 373-377: the callback is asked at the start of the repeat.
CallbackCheck ==
    /\ pc = "callback"
    /\ IF Callable
       THEN \E ret \in BOOLEAN :
               /\ log' = Append(log, Ev("callback", i, ret, 0))
               /\ exit_imaging' = (exit_imaging \/ ~ret)
       ELSE /\ log' = log
            /\ exit_imaging' = exit_imaging
    /\ pc' = BreakIfExit(exit_imaging')
    /\ UNCHANGED <<now, run, isi_slept_time, dynamic_parameters, dp,
                   inter_loop_callback, i, wakeup_time, trial,
                   imaging_angle, latest_angle, offset, ir_level, flash_level,
                   error>>
    /\ UNCHANGED restVars

\* core.py 382: label = 'im_pos{}_rep{}'.format(imaging_angle, i)
TrialLabel_FirstRep(angle, rep) == <<angle, 0>>

TrialLabel(angle, rep) == <<angle, rep>>

\* core.py 379-392: frame count, label and the stimulus waveform.
Synthesize ==
    /\ pc = "synthesize"
    /\ trial' = [N_frames |-> NFrames(dynamic_parameters),
                 label |-> TrialLabel(imaging_angle, i),
                 stimulus |-> StimulusLen(dynamic_parameters)]
    /\ pc' = "set_imaging"
    /\ UNCHANGED <<now, run, isi_slept_time, dynamic_parameters, dp,
                   inter_loop_callback, exit_imaging, i, wakeup_time,
                   imaging_angle, latest_angle, offset, ir_level, flash_level,
                   error, log>>
    /\ UNCHANGED restVars

\* core.py 394: set_led(ir_channel, ir_imaging)
SetImaging ==
    /\ pc = "set_imaging"
    /\ ir_level' = dynamic_parameters.ir_imaging
    /\ log' = Append(log, Ev("set_led", i, TRUE, dynamic_parameters.ir_imaging))
    /\ pc' = "settle"
    /\ UNCHANGED <<now, run, isi_slept_time, dynamic_parameters, dp,
                   inter_loop_callback, exit_imaging, i, wakeup_time, trial,
                   imaging_angle, latest_angle, offset, flash_level, error>>
    /\ UNCHANGED restVars

\* core.py 395: time.sleep(0.5)
Settle_ArmLater ==
    /\ pc = "settle"
    /\ now' = now + SETTLE_SLEEP
    /\ pc' = "play"
    /\ UNCHANGED <<run, isi_slept_time, dynamic_parameters, dp,
                   inter_loop_callback, exit_imaging, i, wakeup_time, trial,
                   imaging_angle, latest_angle, offset, ir_level, flash_level,
                   error, log>>
    /\ UNCHANGED restVars

Settle ==
    /\ pc = "settle"
    /\ now' = now + SETTLE_SLEEP
    /\ pc' = "arm"
    /\ UNCHANGED <<run, isi_slept_time, dynamic_parameters, dp,
                   inter_loop_callback, exit_imaging, i, wakeup_time, trial,
                   imaging_angle, latest_angle, offset, ir_level, flash_level,
                   error, log>>
    /\ UNCHANGED restVars

\* core.py 400, camera_client.py 103-116: acquireSeries(..., 'send')
Arm_SkipRepeat ==
    /\ pc = "arm"
    /\ \E refusals \in Refusals :
          LET r == SendCommand(refusals, MAX_RETRIES)
          IN /\ now' = now + r.slept
             /\ IF r.sent
                THEN /\ log' = Append(log, [Ev("acquireSeries", trial.label[2],
                                               TRUE, trial.N_frames)
                                               EXCEPT !.t = now'])
                     /\ pc' = "play"
                     /\ error' = error
                ELSE /\ log' = log
                     /\ pc' = "isi"
                     /\ error' = "ConnectionRefusedError"
    /\ UNCHANGED <<run, isi_slept_time, dynamic_parameters, dp,
                   inter_loop_callback, exit_imaging, i, wakeup_time, trial,
                   imaging_angle, latest_angle, offset, ir_level, flash_level>>
    /\ UNCHANGED restVars

Arm ==
    /\ pc = "arm"
    /\ \E refusals \in Refusals :
          LET r == SendCommand(refusals, MAX_RETRIES)
          IN /\ now' = now + r.slept
             /\ IF r.sent
                THEN /\ log' = Append(log, [Ev("acquireSeries", trial.label[2],
                                               TRUE, trial.N_frames)
                                               EXCEPT !.t = now'])
                     /\ pc' = "play"
                     /\ error' = error
                ELSE /\ log' = log
                     /\ pc' = "raised"
                     /\ error' = "ConnectionRefusedError"
    /\ UNCHANGED <<run, isi_slept_time, dynamic_parameters, dp,
                   inter_loop_callback, exit_imaging, i, wakeup_time, trial,
                   imaging_angle, latest_angle, offset, ir_level, flash_level>>
    /\ UNCHANGED restVars

\* core.py 403, 83-118: analog_output([flash_channel], [stimulus], fs,
\* wait_trigger=True) up to task.start(): the task waits for the trigger edge.
PlayStart ==
    /\ pc = "play"
    /\ log' = Append(log, Ev("play_start", i, TRUE, trial.stimulus))
    /\ pc' = "play_wait"
    /\ UNCHANGED <<now, run, isi_slept_time, dynamic_parameters, dp,
                   inter_loop_callback, exit_imaging, i, wakeup_time, trial,
                   imaging_angle, latest_angle, offset, ir_level, flash_level,
                   error>>
    /\ UNCHANGED restVars

\* core.py 119: task.wait_until_done(timeout=...).  The trigger edge comes and
\* the waveform is played to its last sample, or the wait times out.
PlayWait ==
    /\ pc = "play_wait"
    /\ \/ /\ now' = now + PlayTicks(trial.stimulus)
          /\ flash_level' = dynamic_parameters.flash_off
          /\ log' = Append(log, [Ev("play_done", i, TRUE, trial.stimulus)
                                    EXCEPT !.t = now'])
          /\ pc' = "set_waiting"
          /\ error' = error
       \/ /\ now' = now + TimeoutTicks(trial.stimulus)
          /\ flash_level' = flash_level
          /\ log' = log
          /\ pc' = "raised"
          /\ error' = "DaqError"
    /\ UNCHANGED <<run, isi_slept_time, dynamic_parameters, dp,
                   inter_loop_callback, exit_imaging, i, wakeup_time, trial,
                   imaging_angle, latest_angle, offset, ir_level>>
    /\ UNCHANGED restVars

\* core.py 406: set_led(ir_channel, ir_waiting)
SetWaiting ==
    /\ pc = "set_waiting"
    /\ ir_level' = dynamic_parameters.ir_waiting
    /\ log' = Append(log, Ev("set_led", i, TRUE, dynamic_parameters.ir_waiting))
    /\ pc' = "isi"
    /\ UNCHANGED <<now, run, isi_slept_time, dynamic_parameters, dp,
                   inter_loop_callback, exit_imaging, i, wakeup_time, trial,
                   imaging_angle, latest_angle, offset, flash_level, error>>
    /\ UNCHANGED restVars

\* core.py 413: wakeup_time = time.time() + isi[i] - 0.5
WakeupTime_Early(t, isi) == t + isi - (2 * ISI_ADVANCE)

WakeupTime(t, isi) == t + isi - ISI_ADVANCE

\* core.py 410-413: the last repeat records the deadline and goes on; the
\* others compute wakeup_time.  dp.isi[i + 1] is Python's isi[i].
IsiBranch ==
    /\ pc = "isi"
    /\ IF i + 1 = Repeats
       THEN /\ isi_slept_time' = Attribute(now + dp.isi[i + 1])
            /\ wakeup_time' = wakeup_time
            /\ i' = i + 1
            /\ pc' = "loop"
       ELSE /\ wakeup_time' = WakeupTime(now, dp.isi[i + 1])
            /\ isi_slept_time' = isi_slept_time
            /\ i' = i
            /\ pc' = "poll"
    /\ UNCHANGED <<now, run, dynamic_parameters, dp, inter_loop_callback,
                   exit_imaging, trial, imaging_angle, latest_angle, offset,
                   ir_level, flash_level, error, log>>
    /\ UNCHANGED restVars

\* core.py 415-419: one round of the inter-trial wait.
Poll_BreakOnly ==
    /\ pc = "poll"
    /\ IF wakeup_time > now
       THEN \/ /\ Callable
               /\ log' = Append(log, Ev("poll", i, FALSE, 0))
               /\ exit_imaging' = exit_imaging
               /\ now' = now
               /\ i' = i + 1
               /\ pc' = "loop"
            \/ /\ log' = IF Callable THEN Append(log, Ev("poll", i, TRUE, 0))
                                     ELSE log
               /\ exit_imaging' = exit_imaging
               /\ now' = now + POLL_SLEEP
               /\ i' = i
               /\ pc' = "poll"
       ELSE /\ log' = log
            /\ exit_imaging' = exit_imaging
            /\ now' = now
            /\ i' = i + 1
            /\ pc' = "loop"
    /\ UNCHANGED <<run, isi_slept_time, dynamic_parameters, dp,
                   inter_loop_callback, wakeup_time, trial, imaging_angle,
                   latest_angle, offset, ir_level, flash_level, error>>
    /\ UNCHANGED restVars

Poll ==
    /\ pc = "poll"
    /\ IF wakeup_time > now
       THEN \/ /\ Callable
               /\ log' = Append(log, Ev("poll", i, FALSE, 0))
               /\ exit_imaging' = TRUE
               /\ now' = now
               /\ i' = i + 1
               /\ pc' = "loop"
            \/ /\ log' = IF Callable THEN Append(log, Ev("poll", i, TRUE, 0))
                                     ELSE log
               /\ exit_imaging' = exit_imaging
               /\ now' = now + POLL_SLEEP
               /\ i' = i
               /\ pc' = "poll"
       ELSE /\ log' = log
            /\ exit_imaging' = exit_imaging
            /\ now' = now
            /\ i' = i + 1
            /\ pc' = "loop"
    /\ UNCHANGED <<run, isi_slept_time, dynamic_parameters, dp,
                   inter_loop_callback, wakeup_time, trial, imaging_angle,
                   latest_angle, offset, ir_level, flash_level, error>>
    /\ UNCHANGED restVars

\* core.py 421: the level written on leaving the loop.
CleanupLevel_Waiting == dynamic_parameters.ir_waiting

CleanupLevel == dynamic_parameters.ir_livefeed

\* core.py 421-422: set_led(ir_channel, ir_livefeed), then return.
Cleanup ==
    /\ pc = "cleanup"
    /\ ir_level' = CleanupLevel
    /\ log' = Append(log, Ev("set_led", i, TRUE, CleanupLevel))
    /\ pc' = "returned"
    /\ UNCHANGED <<now, run, isi_slept_time, dynamic_parameters, dp,
                   inter_loop_callback, exit_imaging, i, wakeup_time, trial,
                   imaging_angle, latest_angle, offset, flash_level, error>>
    /\ UNCHANGED restVars

Next ==
    \/ Call
    \/ EntryWait
    \/ Coerce
    \/ SaveDescription
    \/ LoopHead
    \/ CallbackCheck
    \/ Synthesize
    \/ SetImaging
    \/ Settle
    \/ Arm
    \/ PlayStart
    \/ PlayWait
    \/ SetWaiting
    \/ IsiBranch
    \/ Poll
    \/ Cleanup

Spec == Init /\ [][Next]_vars

-----------------------------------------------------------------------------
(* The list coercion of image_series3 on every shape of 'isi' and 'flash_on':
   a call that stands before core.py 353 with the parameters drawn from
   ParamShapes. *)

InitCoerce ==
    /\ now = 0
    /\ run = 1
    /\ pc = "coerce"
    /\ isi_slept_time = NoAttribute
    /\ \E r \in 0..MaxRepeats, isi \in ParamShapes, flash_on \in ParamShapes :
          dynamic_parameters = Parameters(r, isi, flash_on)
    /\ dp = [isi |-> <<>>, flash_on |-> <<>>]
    /\ inter_loop_callback = "none"
    /\ exit_imaging = FALSE
    /\ i = 0
    /\ wakeup_time = 0
    /\ trial = NoTrial
    /\ imaging_angle = <<0, 0>>
    /\ latest_angle = <<0, 0>>
    /\ offset = <<0, 0>>
    /\ ir_level = 0
    /\ flash_level = 0
    /\ error = ""
    /\ log = <<>>
    /\ InitRest

NextCoerce == Coerce

SpecCoerce == InitCoerce /\ [][NextCoerce]_vars

-----------------------------------------------------------------------------
(* CameraClient.sendCommand and isServerRunning, one action per statement.
   Every connection attempt is refused or accepted by the environment. *)

\* The characters of a response that matter: the field separator and another.
Chars == {"a", ":"}

\* camera_client.py 138: the arguments isServerRunning gives to sendCommand.
PingArgs == [retries |-> 0, listen |-> FALSE]

\* camera_client.py 58, 76: a call of sendCommand; the socket is created.
NewCall(via, retries, listen) ==
    [IdleLink EXCEPT !.pc = "connect", !.via = via, !.retries = retries,
                     !.listen = listen, !.t0 = now, !.sock = "open",
                     !.calls = link.calls + 1]

\* The caller has control again: nothing is in progress.
LinkAtRest ==
    \/ link.pc \in {"idle", "done"}
    \/ link.via = "sendCommand" /\ link.pc \in {"returned", "raised"}

SendCall ==
    /\ LinkAtRest
    /\ link.calls < MaxSendCalls
    /\ \/ \E r \in 0..MaxRetryBudget, l \in BOOLEAN :
             link' = NewCall("sendCommand", r, l)
       \/ link' = NewCall("isServerRunning", PingArgs.retries, PingArgs.listen)
    /\ UNCHANGED <<now, imagingVars, outputVars, readerVars, motorVars, macroVars>>

\* camera_client.py 84: if tries > retries
BudgetExhausted_OneEarly(tries, retries) == tries >= retries

BudgetExhausted(tries, retries) == tries > retries

\* camera_client.py 79-85: one s.connect; a refusal counts a try and raises
\* when the budget is used up, which leaves the with block.
Connect ==
    /\ link.pc = "connect"
    /\ \/ link' = [link EXCEPT !.attempts = @ + 1, !.sock = "connected",
                               !.pc = "send"]
       \/ LET t == link.tries + 1
          IN link' = IF BudgetExhausted(t, link.retries)
                     THEN [link EXCEPT !.attempts = @ + 1, !.refused = @ + 1,
                                       !.tries = t, !.pc = "raised",
                                       !.error = "ConnectionRefusedError",
                                       !.sock = "closed"]
                     ELSE [link EXCEPT !.attempts = @ + 1, !.refused = @ + 1,
                                       !.tries = t, !.pc = "backoff"]
    /\ UNCHANGED <<now, imagingVars, outputVars, readerVars, motorVars, macroVars>>

\* camera_client.py 86-87: time.sleep(RETRY_INTERVAL), then the next attempt
Backoff ==
    /\ link.pc = "backoff"
    /\ now' = now + RETRY_INTERVAL
    /\ link' = [link EXCEPT !.sleeps = @ + 1, !.pc = "connect"]
    /\ UNCHANGED <<imagingVars, outputVars, readerVars, motorVars, macroVars>>

\* camera_client.py 89-92: s.sendall; without listen the call ends here,
\* returns None and the with block closes the socket.
Send_KeepOpen ==
    /\ link.pc = "send"
    /\ link' = IF link.listen
               THEN [link EXCEPT !.sent = @ + 1, !.pc = "recv"]
               ELSE [link EXCEPT !.sent = @ + 1, !.pc = "returned"]
    /\ UNCHANGED <<now, imagingVars, outputVars, readerVars, motorVars, macroVars>>

Send ==
    /\ link.pc = "send"
    /\ link' = IF link.listen
               THEN [link EXCEPT !.sent = @ + 1, !.pc = "recv"]
               ELSE [link EXCEPT !.sent = @ + 1, !.pc = "returned",
                                 !.sock = "closed"]
    /\ UNCHANGED <<now, imagingVars, outputVars, readerVars, motorVars, macroVars>>

\* camera_client.py 94-97: one s.recv: data is appended, or the peer has
\* closed the stream and the loop ends.
Recv ==
    /\ link.pc = "recv"
    /\ \/ \E c \in Chars :
             /\ Len(link.response) < MaxResponseLen
             /\ link' = [link EXCEPT !.response = Append(@, c)]
       \/ link' = [link EXCEPT !.pc = "decode"]
    /\ UNCHANGED <<now, imagingVars, outputVars, readerVars, motorVars, macroVars>>

\* str.split(':'): the pieces between the separators, empty ones included.
RECURSIVE SplitFrom(_, _, _)
SplitFrom(text, k, piece) ==
    IF k > Len(text) THEN <<piece>>
    ELSE IF text[k] = ":" THEN <<piece>> \o SplitFrom(text, k + 1, <<>>)
    ELSE SplitFrom(text, k + 1, Append(piece, text[k]))

Split(text) == SplitFrom(text, 1, <<>>)

\* camera_client.py 98-100: the value returned with listen
Decoded_NeverSplit(text) == [kind |-> "text", val |-> text]

Decoded(text) ==
    IF \E k \in 1..Len(text) : text[k] = ":"
    THEN [kind |-> "fields", val |-> Split(text)]
    ELSE [kind |-> "text", val |-> text]

\* camera_client.py 98-100: split on ':' if there is one, return, close.
Decode ==
    /\ link.pc = "decode"
    /\ link' = [link EXCEPT !.result = Decoded(link.response),
                            !.pc = "returned", !.sock = "closed"]
    /\ UNCHANGED <<now, imagingVars, outputVars, readerVars, motorVars, macroVars>>

\* camera_client.py 139-141: False if the error was raised, True otherwise
PingResult_AlwaysTrue(raised) == [kind |-> "bool", val |-> <<TRUE>>]

PingResult(raised) == [kind |-> "bool", val |-> <<~raised>>]

\* camera_client.py 136-141: isServerRunning catches the error and returns.
IsServerRunningReturn ==
    /\ link.via = "isServerRunning"
    /\ link.pc \in {"returned", "raised"}
    /\ link' = [link EXCEPT !.result = PingResult(link.pc = "raised"),
                            !.error = "", !.pc = "done"]
    /\ UNCHANGED <<now, imagingVars, outputVars, readerVars, motorVars, macroVars>>

NextSend ==
    \/ SendCall
    \/ Connect
    \/ Backoff
    \/ Send
    \/ Recv
    \/ Decode
    \/ IsServerRunningReturn

SpecSend == Init /\ [][NextSend]_vars

-----------------------------------------------------------------------------
(* Motor (src/motors.py), as it is called by the user interface, by
   Dynamic.finalize and at process exit.  The file is read statement by
   statement: line 76 puts a positional argument after a keyword argument,
   which Python rejects when it compiles the file, and 'threading' is not
   imported; the statement stands for a failing one wherever it is reached. *)

HasSensor(mo) == mo.i_sensor.set

\* motors.py 101-108: reached_target()
ReachedTarget(mo) == mo.thread = None

\* motors.py 74, arduino_serial.py 90-95: get_sensor(i_sensor)
Sensed(mo) == GetLatest[mo.i_sensor.at + 1]

\* motors.py 90: target - maxmis/2 < pos < target + maxmis/2
InBand(mo, pos, t) ==
    /\ 2 * t - mo.maxmis < 2 * pos
    /\ 2 * pos < 2 * t + mo.maxmis

\* arduino_serial.py 66-87: move_motor writes round(time*10) letters, lower
\* case for direction >= 0 and upper case otherwise.
Pulse(m, direction, time) ==
    [motor |-> m, forward |-> (direction >= 0), n |-> time * 10]

\* motors.py 46-48: the test that lets a move through
MayMove(mo, direction) ==
    \/ ExtLe(mo.limits[1], Finite(mo.position)) /\ direction >= 0
    \/ ExtLe(Finite(mo.position), mo.limits[2]) /\ direction < 0
    \/ ExtLt(mo.limits[1], Finite(mo.position))
          /\ ExtLt(Finite(mo.position), mo.limits[2])

\* motors.py 41-51: move_raw(direction, time)
MoveRaw(mo, direction, time) ==
    IF MayMove(mo, direction)
    THEN [motor |-> [mo EXCEPT !.position = @ + time * direction],
          pulses |-> <<Pulse(mo.i_motor, direction, time)>>, raised |-> ""]
    ELSE [motor |-> mo, pulses |-> <<>>, raised |-> ""]

\* motors.py 54-77: move_to(motor_position).  Without a sensor line 62 reads
\* the name 'position', which is defined nowhere: NameError.  With a sensor
\* a thread is created only if self.thread is already set, and creating it
\* fails; self.thread is None otherwise and nothing is done.
MoveTo(mo, t) ==
    IF ~HasSensor(mo)
    THEN [motor |-> mo, pulses |-> <<>>, raised |-> "NameError"]
    ELSE IF mo.thread # None
         THEN [motor |-> mo, pulses |-> <<>>, raised |-> "NameError"]
         ELSE [motor |-> mo, pulses |-> <<>>, raised |-> ""]

\* motors.py 110-114: set_upper_limit writes limits[0]
SetUpper(mo) == [mo EXCEPT !.limits[1] = Finite(mo.position)]

\* motors.py 117-121: set_lower_limit writes limits[1]
SetLower(mo) == [mo EXCEPT !.limits[2] = Finite(mo.position)]

Positions == (0 - MaxPos)..MaxPos

\* The positions a move_to call asks for: either end of the range, or 0.
Targets == {0 - MaxPos, 0, MaxPos}

\* What a call finds: the motors, their targets and the sensed angles.
Snapshot == [motors |-> motors, target |-> target, sensed |-> GetLatest]

\* The process has not exited.
Running == call.op # "atexit" /\ ops < MaxOps

\* A move_raw call from the user interface.
MotorMoveRaw ==
    /\ Running
    /\ \E m \in MotorIds, direction \in {-1, 1} :
          LET r == MoveRaw(motors[m], direction, 1)
          IN /\ r.motor.position \in Positions
             /\ motors' = [motors EXCEPT ![m] = r.motor]
             /\ call' = [op |-> "move_raw", motor |-> m, arg |-> <<direction, 1>>,
                         before |-> Snapshot, pulses |-> r.pulses,
                         raised |-> r.raised]
    /\ ops' = ops + 1
    /\ UNCHANGED <<now, imagingVars, outputVars, readerVars, link, target, macroVars>>

\* A move_to call from the user interface.
MotorMoveTo ==
    /\ Running
    /\ \E m \in MotorIds, t \in Targets :
          LET r == MoveTo(motors[m], t)
          IN /\ motors' = [motors EXCEPT ![m] = r.motor]
             /\ target' = [target EXCEPT ![m] = Attribute(t)]
             /\ call' = [op |-> "move_to", motor |-> m, arg |-> <<t>>,
                         before |-> Snapshot, pulses |-> r.pulses,
                         raised |-> r.raised]
    /\ ops' = ops + 1
    /\ UNCHANGED <<now, imagingVars, outputVars, readerVars, link, macroVars>>

\* set_upper_limit or set_lower_limit from the user interface.
MotorSetLimit ==
    /\ Running
    /\ \E m \in MotorIds :
          \/ /\ motors' = [motors EXCEPT ![m] = SetUpper(motors[m])]
             /\ call' = [op |-> "set_upper_limit", motor |-> m, arg |-> <<>>,
                         before |-> Snapshot, pulses |-> <<>>, raised |-> ""]
          \/ /\ motors' = [motors EXCEPT ![m] = SetLower(motors[m])]
             /\ call' = [op |-> "set_lower_limit", motor |-> m, arg |-> <<>>,
                         before |-> Snapshot, pulses |-> <<>>, raised |-> ""]
    /\ ops' = ops + 1
    /\ UNCHANGED <<now, imagingVars, outputVars, readerVars, link, target, macroVars>>

\* arduino_serial.py 33-44: readAngles takes a line the encoder has sent.
Angles == {<<0, 0>>, <<10, -10>>}

ReadAngles ==
    /\ call.op # "atexit"
    /\ \E a \in Angles : a # latest_angle /\ latest_angle' = a
    /\ UNCHANGED <<now, imagingVars, outputVars, offset, link, motorVars, macroVars>>

\* image_series3 runs in the thread of the user interface: while it runs,
\* the angles are read only when the callback does so (as tick does)
\* during the wait between two repeats; between two calls the user
\* interface reads them.
AnglesRead ==
    /\ \/ pc \in {"idle", "returned", "raised"}
       \/ Callable /\ pc = "poll"
    /\ ReadAngles

\* image_series3 with two repeats, and the angles being read.
InitLabel ==
    /\ Init
    /\ dynamic_parameters = Parameters(2, Scalar(IsiLong), Scalar(8))

NextLabel ==
    \/ Next
    \/ AnglesRead

SpecLabel == InitLabel /\ [][NextLabel]_vars

\* move_to(0) on the motors of ms one after the other; stop_on_error tells
\* whether an exception ends the round (a for loop) or is only reported
\* (the atexit handlers).
RECURSIVE ZeroAll(_, _, _)
ZeroAll(ms, state, stop_on_error) ==
    IF ms = <<>> \/ (stop_on_error /\ state.raised # "") THEN state
    ELSE LET r == MoveTo(state.motors[Head(ms)], 0)
         IN ZeroAll(Tail(ms),
                    [motors |-> [state.motors EXCEPT ![Head(ms)] = r.motor],
                     target |-> [state.target EXCEPT ![Head(ms)] = Attribute(0)],
                     pulses |-> state.pulses \o r.pulses,
                     raised |-> IF state.raised # "" THEN state.raised
                                ELSE r.raised],
                    stop_on_error)

\* core.py 527-535: finalize: both outputs to 0, then move_to(0) on every
\* motor in list order.
Finalize ==
    /\ Running
    /\ call.op # "finalize"
    /\ ir_level' = 0
    /\ flash_level' = 0
    /\ LET r == ZeroAll(<<0, 1, 2>>,
                        [motors |-> motors, target |-> target,
                         pulses |-> <<>>, raised |-> ""], TRUE)
       IN /\ motors' = r.motors
          /\ target' = r.target
          /\ call' = [op |-> "finalize", motor |-> 0, arg |-> <<>>,
                      before |-> Snapshot, pulses |-> r.pulses,
                      raised |-> r.raised]
    /\ ops' = ops + 1
    /\ UNCHANGED <<now, run, pc, isi_slept_time, dynamic_parameters, dp,
                   inter_loop_callback, exit_imaging, i, wakeup_time, trial,
                   imaging_angle, error, log, readerVars, link, macroVars,
                   outputVars>>

\* motors.py 32: atexit.register(self.move_to, 0).  At process exit the
\* handlers run last registered first; an exception in one is printed and
\* the others still run.
AtExit ==
    /\ Running
    /\ LET r == ZeroAll(<<2, 1, 0>>,
                        [motors |-> motors, target |-> target,
                         pulses |-> <<>>, raised |-> ""], FALSE)
       IN /\ motors' = r.motors
          /\ target' = r.target
          /\ call' = [op |-> "atexit", motor |-> 0, arg |-> <<>>,
                      before |-> Snapshot, pulses |-> r.pulses,
                      raised |-> r.raised]
    /\ ops' = ops + 1
    /\ UNCHANGED <<now, imagingVars, outputVars, readerVars, link, macroVars>>

\* The rig with one fixed set of imaging parameters.
InitRig ==
    /\ Init
    /\ dynamic_parameters = Parameters(1, Scalar(IsiLong), Scalar(8))

NextMotor ==
    \/ MotorMoveRaw
    \/ MotorMoveTo
    \/ MotorSetLimit
    \/ ReadAngles
    \/ Finalize
    \/ AtExit

SpecMotor == InitRig /\ [][NextMotor]_vars

\* The same, where the lines the encoder sends keep being read for as long
\* as the process runs.  Nothing obliges the user interface to make a call.
SpecMotorLive == InitRig /\ [][NextMotor]_vars /\ WF_vars(ReadAngles)

-----------------------------------------------------------------------------
(* Macros (src/core.py run_macro and tick).  A macro is a list of steps; a
   step is a pair of angles, a Python tuple, or a string 'wait N'.  No macro
   (None) is the empty sequence. *)

MoveStep(h, v) == [kind |-> "move", h |-> h, v |-> v, n |-> 0]
WaitStep(n) == [kind |-> "wait", h |-> 0, v |-> 0, n |-> n]

\* What macro.load may return.
Macros ==
    {<<MoveStep(MaxPos, MaxPos), MoveStep(0 - MaxPos, 0)>>,
     <<MoveStep(0, MaxPos), WaitStep(1), MoveStep(0, 0)>>,
     <<WaitStep(0), MoveStep(MaxPos, 0)>>,
     <<MoveStep(0, 0)>>}

\* core.py 556-558: run_macro
RunMacro ==
    /\ ops < MaxTicks
    /\ \E loaded \in Macros :
          /\ macro' = loaded
          /\ i_macro' = 0
    /\ call' = [op |-> "run_macro", motor |-> 0, arg |-> <<>>,
                before |-> Snapshot, pulses |-> <<>>, raised |-> ""]
    /\ ops' = ops + 1
    /\ step_seen' = NoAttribute
    /\ UNCHANGED <<now, imagingVars, outputVars, readerVars, link, motors,
                   target, waittime>>

\* core.py 503: all([self.motors[i].reached_target() for i in [0,1]])
BothReached == \A m \in {0, 1} : ReachedTarget(motors[m])

\* core.py 474-516: tick.  The angles are read until two readings agree,
\* then one step of the macro is looked at.  The clock is read at line 509
\* and again at line 512, delta later.
Tick ==
    /\ ops < MaxTicks
    /\ \E a \in Angles, delta \in {0, 1} :
          LET action == macro[i_macro + 1]
              moves == macro # <<>> /\ action.kind = "move" /\ BothReached
              waits == macro # <<>> /\ action.kind = "wait"
              r0 == MoveTo(motors[0], action.h)
              r1 == MoveTo(motors[1], action.v)
              raised == IF ~moves THEN ""
                        ELSE IF r0.raised # "" THEN r0.raised ELSE r1.raised
              wt == IF waits THEN now + action.n * TICKS_PER_S ELSE waittime
              next_macro_step == (moves /\ raised = "") \/ waits
              advance == next_macro_step /\ wt < now + delta
          IN /\ latest_angle' = a
             /\ now' = now + delta
             /\ waittime' = wt
             /\ motors' = IF ~moves THEN motors
                          ELSE IF r0.raised # ""
                          THEN [motors EXCEPT ![0] = r0.motor]
                          ELSE [motors EXCEPT ![0] = r0.motor, ![1] = r1.motor]
             /\ target' = IF ~moves THEN target
                          ELSE IF r0.raised # ""
                          THEN [target EXCEPT ![0] = Attribute(action.h)]
                          ELSE [target EXCEPT ![0] = Attribute(action.h),
                                              ![1] = Attribute(action.v)]
             /\ step_seen' = IF macro = <<>> \/ advance THEN NoAttribute
                             ELSE IF step_seen.set THEN step_seen
                             ELSE Attribute(now)
             /\ IF advance /\ i_macro + 1 = Len(macro)
                THEN macro' = <<>> /\ i_macro' = 0
                ELSE /\ macro' = macro
                     /\ i_macro' = IF advance THEN i_macro + 1 ELSE i_macro
             /\ call' = [op |-> "tick", motor |-> 0,
                         arg |-> IF moves THEN <<action.h, action.v>> ELSE <<>>,
                         before |-> Snapshot,
                         pulses |-> IF moves THEN r0.pulses \o r1.pulses
                                    ELSE <<>>,
                         raised |-> raised]
    /\ ops' = ops + 1
    /\ UNCHANGED <<imagingVars, outputVars, offset, link>>

\* The user interface loop lets a second pass between two calls.
Elapse ==
    /\ now < MaxTicks * TICKS_PER_S
    /\ now' = now + TICKS_PER_S
    /\ UNCHANGED <<imagingVars, outputVars, readerVars, link, motorVars,
                   macroVars>>

NextMacro ==
    \/ RunMacro
    \/ Tick
    \/ Elapse

SpecMacro == InitRig /\ [][NextMacro]_vars

-----------------------------------------------------------------------------
(* Dynamic.analog_output (src/core.py 75-119).  A channel is a name or a
   list of names that share one waveform; a waveform is a sequence of
   samples. *)

ChannelName == [group |-> FALSE, n |-> 1]
ChannelList(n) == [group |-> TRUE, n |-> n]
ChannelShapes == {ChannelName, ChannelList(1), ChannelList(2)}

Waveforms == UNION {[1..n -> {0, 1}] : n \in 1..MaxSamples}

\* The sampling rates tried: the one of image_series3 and two small ones.
Rates == {1, 2, fs}

\* list.insert(k, x) and list.pop(k), k counted from 0
Insert(list, k, x) == SubSeq(list, 1, k) \o <<x>> \o SubSeq(list, k + 1, Len(list))
Pop(list, k) == SubSeq(list, 1, k) \o SubSeq(list, k + 2, Len(list))

\* core.py 89-91: one stimuli.insert(i_channel, stimuli[i_channel]) for
\* every name of the list
RECURSIVE InsertCopies(_, _, _)
InsertCopies(stimuli, k, n) ==
    IF n = 0 THEN stimuli
    ELSE InsertCopies(Insert(stimuli, k, stimuli[k + 1]), k, n - 1)

\* core.py 84-92: the loop over enumerate(channels), from index k on
RECURSIVE Expand(_, _, _)
Expand(channels, k, stimuli) ==
    IF k = Len(channels) THEN stimuli
    ELSE Expand(channels, k + 1,
                IF channels[k + 1].group
                THEN Pop(InsertCopies(stimuli, k, channels[k + 1].n), k)
                ELSE stimuli)

\* core.py 86, 90: the channels added to the task
RECURSIVE AoChannels(_)
AoChannels(channels) ==
    IF channels = <<>> THEN 0
    ELSE Head(channels).n + AoChannels(Tail(channels))

\* core.py 97-100: np.vstack takes rows of one length only (ValueError)
Stackable_Unchecked(rows) == TRUE

Stackable(rows) == \A k \in 1..Len(rows) : Len(rows[k]) = Len(rows[1])

\* core.py 119: timeout=len(stimuli[0])*fs*1.5, here twice that number
Timeout2(rows, rate) == Len(rows[1]) * rate * 3

\* core.py 83-119: the call as a whole
AnalogOutput(channels, stimuli, rate, wait_trigger) ==
    LET rows == Expand(channels, 0, stimuli)
        call_ == [op |-> "analog_output", channels |-> channels,
                  stimuli |-> stimuli, fs |-> rate,
                  ao_channels |-> AoChannels(channels),
                  samps_per_chan |-> Len(rows[1])]
    IN IF Len(rows) > 1 /\ ~Stackable(rows)
       THEN call_ @@ [written |-> <<>>, wait_trigger |-> FALSE,
                      started |-> FALSE, timeout2 |-> 0,
                      error |-> "ValueError"]
       ELSE call_ @@ [written |-> rows, wait_trigger |-> wait_trigger,
                      started |-> TRUE, timeout2 |-> Timeout2(rows, rate),
                      error |-> ""]

\* One call, with every argument the bounds allow.
AnalogOutputCall ==
    /\ task = NoTask
    /\ \E n \in 1..2 :
          \E channels \in [1..n -> ChannelShapes],
             stimuli \in [1..n -> Waveforms],
             rate \in Rates, wait_trigger \in BOOLEAN :
                task' = AnalogOutput(channels, stimuli, rate, wait_trigger)
    /\ UNCHANGED <<now, imagingVars, readerVars, link, motorVars, macroVars,
                   builder, spacing_due, clientVars>>

NextAnalog == AnalogOutputCall

SpecAnalog == InitRig /\ [][NextAnalog]_vars

-----------------------------------------------------------------------------
(* ArduinoReader (src/arduino_serial.py): the lines of the encoder and the
   zero point.  Dynamic.set_zero (src/core.py 518-523) only passes the call
   on to the reader. *)

MaxAngle == 1

\* The angle pairs a line of the encoder may hold
EncoderLines == {<<h, v>> : h \in (0 - MaxAngle)..MaxAngle,
                           v \in (0 - MaxAngle)..MaxAngle}

\* arduino_serial.py 26-30: _offsetCorrect(angles) with a given offset
OffsetCorrect(angles, off) == <<angles[1] - off[1], angles[2] - off[2]>>

\* arduino_serial.py 33-44: readAngles when the encoder has sent a line (an
\* empty read changes nothing).
ReadLine ==
    /\ \E a \in EncoderLines : a # latest_angle /\ latest_angle' = a
    /\ call' = [op |-> "readAngles", motor |-> 0, arg |-> <<>>,
                before |-> Snapshot, pulses |-> <<>>, raised |-> ""]
    /\ UNCHANGED <<now, imagingVars, outputVars, offset, link, motors, target,
                   ops, macroVars>>

\* arduino_serial.py 59-63, core.py 518-523: currentAsZero stores what
\* getLatest returns, the reading corrected by the offset in force.
CurrentAsZero ==
    /\ ops < MaxOps
    /\ offset' = OffsetCorrect(latest_angle, offset)
    /\ call' = [op |-> "currentAsZero", motor |-> 0, arg |-> <<>>,
                before |-> Snapshot, pulses |-> <<>>, raised |-> ""]
    /\ ops' = ops + 1
    /\ UNCHANGED <<now, imagingVars, outputVars, latest_angle, link, motors,
                   target, macroVars>>

NextReader ==
    \/ ReadLine
    \/ CurrentAsZero

SpecReader == InitRig /\ [][NextReader]_vars

-----------------------------------------------------------------------------
(* CameraClient.__init__ (src/gonioimsoft/camera_client.py 42-55).  The
   first client is the one Dynamic.__init__ creates (src/core.py 44). *)

\* The hosts and ports a caller may name
Hosts == {"None", "192.168.0.2"}

Ports == {NoAttribute, Attribute(PORT + 1), Attribute(PORT + 2)}

NewCameraClient ==
    /\ Len(clients) < MaxClients
    /\ \E host \in Hosts, port \in Ports :
          clients' = Append(clients,
                            CameraClient(host, port, port_running_index))
    /\ UNCHANGED <<now, imagingVars, readerVars, link, motorVars, macroVars,
                   task, builder, spacing_due, port_running_index>>

NextClient == NewCameraClient

SpecClient == InitRig /\ [][NextClient]_vars

-----------------------------------------------------------------------------
(* StimulusBuilder (src/gonioimsoft/stimulus.py).  Durations are counted in
   half milliseconds, so that a duration of one and a half samples at 1 kHz
   can be stated; the products duration*fs are taken in exact arithmetic
   (the rounding of binary floating point is not modelled).  Sample values
   are in tenths of a volt.  The waveform tag is the list of its fields
   between commas. *)

MaxHalves == 3

HALF_MS_PER_S == 2000

CAMERA_HIGH == 33

Durations == 0..MaxHalves

FrameLengths == {2, 4}

FinalVals == {0, 3}

WTypes == { <<"square">>, <<"sinelogsweep">>,
            <<"squarelogsweep", "1", "10">>,
            <<"triangle">>, <<"sinelogsweep", "1">>, <<"sawlogsweep">>,
            <<"sinelogsweep", "a", "b">> }

SweepNames == {"sinelogsweep", "squarelogsweep", "3steplogsweep"}

\* 'logsweep' in self.wtype
HasLogsweep(wtype) ==
    \E k \in 1..Len(wtype) : wtype[k] \in SweepNames \cup {"sawlogsweep"}

\* float(f) succeeds
IsFloat(f) == f \in {"1", "10"}

\* int(duration * fs)
Samples(duration, rate) == (duration * rate) \div HALF_MS_PER_S

\* round(a / b) of Python 3: to the nearest integer, a tie to the even one
Round(a, b) ==
    LET q == a \div b
        r == a % b
    IN IF 2 * r < b THEN q
       ELSE IF 2 * r > b THEN q + 1
       ELSE IF q % 2 = 0 THEN q ELSE q + 1

Zeros(n) == [k \in 1..n |-> 0]

Ones(n) == [k \in 1..n |-> 1]

\* Outcomes of a method call
Returned(val) == [ret |-> "value", val |-> val]

Raised(exception) == [ret |-> "raise", val |-> exception]

NoReturn == [ret |-> "", val |-> <<>>]

\* array[-1] = v
SetLast(array, v) ==
    IF array = <<>> THEN Raised("IndexError")
    ELSE Returned([array EXCEPT ![Len(array)] = v])

\* StimulusBuilder(stim_time, prestim_time, poststim_time, frame_length,
\* stimulus_intensity, illumination_intensity, fs, stimulus_finalval,
\* illumination_finalval, wtype), the arguments in that order
StimulusBuilder(stim, pre, post, frame, s_int, i_int, rate, s_fin, i_fin, wtype) ==
    [op |-> "__init__",
     stim_time |-> stim, prestim_time |-> pre,
     poststim_time |-> post, frame_length |-> frame,
     stimulus_intensity |-> s_int,
     illumination_intensity |-> i_int,
     fs |-> rate,
     stimulus_finalval |-> s_fin,
     illumination_finalval |-> i_fin,
     wtype |-> wtype,
     N_frames |-> Round(stim + pre + post, frame),
     overload_stimulus |-> None,
     last |-> NoReturn]

\* The sign pattern of scipy.signal.chirp with phi = -90 on n sample times:
\* it starts at zero and then swings between the two extremes.  The values
\* between the extremes are not modelled.
Chirp(n) == [k \in 1..n |-> IF k = 1 THEN 0 ELSE IF k % 2 = 0 THEN 1 ELSE 0 - 1]

\* The tag the sweep branch compares: the first of three fields when the
\* other two are numbers, the whole tag otherwise (the except clause).
SweepTag(wtype) ==
    IF Len(wtype) = 3 /\ IsFloat(wtype[2]) /\ IsFloat(wtype[3])
    THEN <<wtype[1]>>
    ELSE wtype

\* stimulus = stimulus_intensity * stimulus; stimulus[-1] = finalval.
\* 'halves' are the samples before scaling, counted in halves.
Scaled(b, halves) ==
    SetLast([k \in 1..Len(halves) |-> (b.stimulus_intensity * halves[k]) \div 2],
            b.stimulus_finalval)

GetStimulusPulse(b) ==
    IF b.overload_stimulus # None THEN Returned(b.overload_stimulus)
    ELSE
    LET N0_samples == Samples(b.prestim_time, b.fs)
        N1_samples == Samples(b.stim_time, b.fs)
        N2_samples == Samples(b.poststim_time, b.fs)
        active == Chirp(N1_samples)
    IN IF b.wtype = <<"square">>
       THEN Scaled(b, Zeros(N0_samples)
                        \o [k \in 1..N1_samples |-> 2]
                        \o Zeros(N2_samples))
       ELSE IF HasLogsweep(b.wtype)
       THEN IF SweepTag(b.wtype) \in {<<name>> : name \in SweepNames}
            THEN Scaled(b, Ones(N0_samples)
                             \o [k \in 1..N1_samples |-> active[k] + 1]
                             \o Ones(N2_samples))
            ELSE Raised("ValueError")
       ELSE Raised("ValueError")

GetIllumination(b) ==
    LET n == Samples(b.stim_time + b.prestim_time + b.poststim_time, b.fs)
    IN SetLast([k \in 1..n |-> b.illumination_intensity],
               b.illumination_finalval)

\* samples_per_frame samples high, then as many low, for every frame
SquareWave(samples_per_frame, N_frames) ==
    [k \in 1..(2 * samples_per_frame * N_frames) |->
        IF (k - 1) % (2 * samples_per_frame) < samples_per_frame
        THEN CAMERA_HIGH ELSE 0]

\* a, b = np.split(camera, [ashift]); np.concatenate((b, a))
Shifted(camera, ashift) ==
    IF ashift = 0 \/ ashift >= Len(camera) THEN camera
    ELSE SubSeq(camera, ashift + 1, Len(camera)) \o SubSeq(camera, 1, ashift)

\* The wave cut or padded to N_total_samples
Fitted(camera, N_total_samples) ==
    IF Len(camera) > N_total_samples THEN SubSeq(camera, 1, N_total_samples)
    ELSE camera \o Zeros(N_total_samples - Len(camera))

GetCamera(b, N, interleaved) ==
    LET N_total_samples == Samples(b.prestim_time, b.fs)
                           + Samples(b.stim_time, b.fs)
                           + Samples(b.poststim_time, b.fs)
        samples_per_frame == Samples(b.frame_length, b.fs) \div 2
        shift == IF interleaved THEN (samples_per_frame * 2) \div N ELSE 0
        camera(k) == SetLast(Fitted(Shifted(SquareWave(samples_per_frame,
                                                       b.N_frames),
                                            shift * (k - 1)),
                                    N_total_samples), 0)
    IN IF \E k \in 1..N : camera(k).ret = "raise"
       THEN Raised("IndexError")
       ELSE Returned([k \in 1..N |-> camera(k).val])

\* The recorded stimuli and the sampling rates a stimulus file may hold
OverloadStimuli == {<<7>>, <<7, 7>>}

OverloadRates == {fs, 2 * fs}

Build ==
    /\ builder = NoBuilder
    /\ \E stim_time \in Durations, prestim_time \in Durations,
          poststim_time \in Durations, frame_length \in FrameLengths,
          stimulus_finalval \in FinalVals, illumination_finalval \in FinalVals,
          wtype \in WTypes :
            builder' = StimulusBuilder(stim_time, prestim_time, poststim_time,
                                       frame_length, 8, 4, fs,
                                       stimulus_finalval,
                                       illumination_finalval, wtype)
    /\ UNCHANGED <<now, imagingVars, readerVars, link, motorVars, macroVars,
                   task, spacing_due, clientVars>>

Called(op, outcome) == builder' = [builder EXCEPT !.op = op, !.last = outcome]

OverloadBiosystStimulus ==
    /\ builder # NoBuilder
    /\ builder.overload_stimulus = None
    /\ \E stimulus \in OverloadStimuli, rate \in OverloadRates :
          builder' = [builder EXCEPT !.op = "overload_biosyst_stimulus",
                                     !.overload_stimulus = stimulus,
                                     !.fs = rate,
                                     !.last = Returned(<<stimulus, rate>>)]
    /\ UNCHANGED <<now, imagingVars, readerVars, link, motorVars, macroVars,
                   task, spacing_due, clientVars>>

GetStimulusPulseCall ==
    /\ builder # NoBuilder
    /\ Called("get_stimulus_pulse", GetStimulusPulse(builder))
    /\ UNCHANGED <<now, imagingVars, readerVars, link, motorVars, macroVars,
                   task, spacing_due, clientVars>>

GetIlluminationCall ==
    /\ builder # NoBuilder
    /\ Called("get_illumination", GetIllumination(builder))
    /\ UNCHANGED <<now, imagingVars, readerVars, link, motorVars, macroVars,
                   task, spacing_due, clientVars>>

GetCameraCall ==
    /\ builder # NoBuilder
    /\ \E N \in 1..2, interleaved \in BOOLEAN :
          Called("get_camera", GetCamera(builder, N, interleaved))
    /\ UNCHANGED <<now, imagingVars, readerVars, link, motorVars, macroVars,
                   task, spacing_due, clientVars>>

NextStimulus ==
    \/ Build
    \/ OverloadBiosystStimulus
    \/ GetStimulusPulseCall
    \/ GetIlluminationCall
    \/ GetCameraCall

SpecStimulus == InitRig /\ [][NextStimulus]_vars

\* Timing parameters of a trial that are whole numbers of samples at fs, the
\* frame an even number of samples: up to MaxWhole milliseconds per window,
\* frames of 2 and of 4 milliseconds.
MaxWhole == 2

WholeDurations == {2 * k : k \in 0..MaxWhole}

WholeFrames == {4, 8}

\* stimulus.py 240-250: the builder made from the parameters of a trial, a
\* square pulse of flash_on with final values flash_off and ir_waiting
BuildForTrial ==
    /\ builder = NoBuilder
    /\ \E stim \in WholeDurations, pre_stim \in WholeDurations,
          post_stim \in WholeDurations, frame_length \in WholeFrames :
            builder' = StimulusBuilder(stim, pre_stim, post_stim, frame_length,
                                       8, dynamic_parameters.ir_imaging, fs,
                                       dynamic_parameters.flash_off,
                                       dynamic_parameters.ir_waiting,
                                       <<"square">>)
    /\ UNCHANGED <<now, imagingVars, readerVars, link, motorVars, macroVars,
                   task, spacing_due, clientVars>>

NextTrigger ==
    \/ BuildForTrial
    \/ GetCameraCall

SpecTrigger == InitRig /\ [][NextTrigger]_vars

-----------------------------------------------------------------------------
(* Views of the call log used by the properties *)

Reps(op) == LET sel == SelectSeq(log, LAMBDA e : e.op = op)
            IN [k \in 1..Len(sel) |-> sel[k].rep]

UpTo(n) == [k \in 1..n |-> k - 1]

\* The writes and commands a repeat issues, in log order.
IsRepeatAction(e) ==
    \/ e.op \in {"acquireSeries", "play_start", "play_done"}
    \/ e.op = "set_led" /\ e.val # dynamic_parameters.ir_livefeed

RepeatActions == SelectSeq(log, IsRepeatAction)

Cancelled == \E n \in 1..Len(log) : log[n].op \in {"callback", "poll"} /\ ~log[n].ret

\* the entry of set_led(ir_channel, ir_waiting) of repeat j, when there is one
WaitingAt(j) ==
    {n \in 1..Len(log) : /\ log[n].op = "set_led"
                         /\ log[n].rep = j
                         /\ log[n].val = dynamic_parameters.ir_waiting}

-----------------------------------------------------------------------------
(* C1: if the callback returns False at the start of repeat k, repeats
   0..k-1 have each been armed and played in full, one after the other, and
   nothing is armed or played for a repeat k or later. *)
C1_AbortAtRepeatStart ==
    \A n \in 1..Len(log) :
        (log[n].op = "callback" /\ ~log[n].ret) =>
            /\ Reps("acquireSeries") = UpTo(log[n].rep)
            /\ Reps("play_start") = UpTo(log[n].rep)
            /\ Reps("play_done") = UpTo(log[n].rep)

C1_Witness ==
    /\ pc = "returned"
    /\ \E n \in 1..Len(log) :
          log[n].op = "callback" /\ ~log[n].ret /\ log[n].rep = 2
    /\ ~ \E n \in 1..Len(log) : log[n].op = "poll" /\ ~log[n].ret

(* C2: when image_series3 has left its loop and returned, after all repeats
   or after an abort by the callback, the last level written to the
   illumination channel is the live-feed level. *)
C2_LivefeedOnLoopExit ==
    pc = "returned" =>
        /\ ir_level = dynamic_parameters.ir_livefeed
        /\ log[Len(log)].op = "set_led"
        /\ log[Len(log)].val = dynamic_parameters.ir_livefeed

C2_Witness ==
    /\ pc = "returned"
    /\ \E n \in 1..Len(log) : log[n].op = "poll" /\ ~log[n].ret
    /\ ir_level = dynamic_parameters.ir_livefeed

(* C3: when arming or playback fails during a repeat, the illumination
   channel is at the live-feed level by the time the caller has control. *)
C3_LivefeedOnError ==
    (pc = "raised" /\ error \in {"ConnectionRefusedError", "DaqError"}
        /\ Len(RepeatActions) > 0)
        => ir_level = dynamic_parameters.ir_livefeed

(* C4: without cancellation and without error, the acquireSeries calls carry
   the repeat indices 0, 1, 2, ... in this order, and when the call returns
   there are exactly 'repeats' of them. *)
C4_ArmedInIndexOrder ==
    ~Cancelled =>
        /\ Reps("acquireSeries") = UpTo(Len(Reps("acquireSeries")))
        /\ pc = "returned" => Len(Reps("acquireSeries")) = Repeats

C4_Witness ==
    /\ pc = "returned"
    /\ ~Cancelled
    /\ Repeats >= 2
    /\ Reps("acquireSeries") = UpTo(Repeats)

(* C5: the m-th device action of a call is the (m mod 5)-th step of repeat
   m div 5: imaging level, arming, playback start, playback end, waiting
   level; the actions are ordered in time, so a repeat is armed only after
   the previous one was played to its end and set to the waiting level. *)
RepeatStep(k) ==
    IF k = 0 THEN [op |-> "set_led", val |-> dynamic_parameters.ir_imaging]
    ELSE IF k = 1 THEN [op |-> "acquireSeries", val |-> NFrames(dynamic_parameters)]
    ELSE IF k = 2 THEN [op |-> "play_start", val |-> StimulusLen(dynamic_parameters)]
    ELSE IF k = 3 THEN [op |-> "play_done", val |-> StimulusLen(dynamic_parameters)]
    ELSE [op |-> "set_led", val |-> dynamic_parameters.ir_waiting]

C5_StepsInOrder ==
    LET A == RepeatActions
    IN \A m \in 1..Len(A) :
          /\ A[m].rep = (m - 1) \div 5
          /\ A[m].op = RepeatStep((m - 1) % 5).op
          /\ A[m].val = RepeatStep((m - 1) % 5).val
          /\ m > 1 => A[m - 1].t <= A[m].t

C5_Witness ==
    /\ Len(RepeatActions) = 7
    /\ RepeatActions[7].op = "acquireSeries"
    /\ RepeatActions[7].rep = 1
    /\ RepeatActions[4].op = "play_done"
    /\ RepeatActions[5].val = dynamic_parameters.ir_waiting

(* C6: once a poll of the inter-trial wait has returned False, the wait is
   over: no further poll follows, nothing more is armed or played, no time is
   spent waiting, and the call goes on to the live-feed reset and returns
   with the illumination at the live-feed level. *)
C6_AbortDuringWait ==
    \A n \in 1..Len(log) :
        (log[n].op = "poll" /\ ~log[n].ret) =>
            /\ exit_imaging
            /\ pc \in {"loop", "callback", "cleanup", "returned"}
            /\ now = log[n].t
            /\ \A m \in (n + 1)..Len(log) :
                  \/ log[m].op = "callback" /\ log[m].rep = log[n].rep + 1
                  \/ log[m].op = "set_led"
                        /\ log[m].val = dynamic_parameters.ir_livefeed
            /\ pc = "returned" => ir_level = dynamic_parameters.ir_livefeed

C6_Witness ==
    /\ pc = "returned"
    /\ Len(log) > 3
    /\ log[Len(log) - 3].op = "poll" /\ log[Len(log) - 3].ret
    /\ log[Len(log) - 2].op = "poll" /\ ~log[Len(log) - 2].ret
    /\ log[Len(log) - 1].op = "callback"
    /\ log[Len(log)].op = "set_led"

(* C7: the last repeat stores the deadline 'time of completion + its isi'
   and goes on without waiting; and while a call runs with a deadline stored
   by an earlier call, nothing it sends or writes is earlier than that
   deadline. *)
DeadlineIsOwn == Repeats > 0 /\ i = Repeats

C7_SpacingAcrossSequences ==
    /\ (pc \in {"loop", "cleanup", "returned"} /\ DeadlineIsOwn) =>
          \E w \in WaitingAt(Repeats - 1) :
              /\ isi_slept_time = Attribute(log[w].t + dp.isi[Repeats])
              /\ now = log[w].t
    /\ (isi_slept_time.set /\ ~DeadlineIsOwn) =>
          \A n \in 1..Len(log) : log[n].t >= isi_slept_time.at

C7_Witness ==
    /\ run = 2
    /\ isi_slept_time.set
    /\ ~DeadlineIsOwn
    /\ Len(log) = 3
    /\ log[1].op = "saveDescription"
    /\ log[1].t = isi_slept_time.at
    /\ log[3].op = "acquireSeries"

(* C8, as claimed: after a repeat j-1 that is not the last and whose wait is
   not cancelled, nothing of repeat j happens before the time the
   illumination was set to the waiting level plus isi[j-1]. *)
WaitCancelled(j) ==
    \E n \in 1..Len(log) : log[n].op = "poll" /\ log[n].rep = j /\ ~log[n].ret

C8_NothingBeforeFullIsi ==
    \A n \in 1..Len(log) :
        (log[n].rep >= 1 /\ ~WaitCancelled(log[n].rep - 1)
            /\ (log[n].op = "callback" \/ IsRepeatAction(log[n]))) =>
            \A w \in WaitingAt(log[n].rep - 1) :
                log[n].t >= log[w].t + dp.isi[log[n].rep]

(* C8, amended: the wait after such a repeat lasts until the time the
   illumination was set to the waiting level plus isi[j-1] minus 0.5 s;
   nothing of repeat j happens before that, and repeat j is not armed before
   the full isi[j-1] has passed. *)
C8_WaitUntilIsiLessSettle ==
    \A n \in 1..Len(log) :
        (log[n].rep >= 1 /\ ~WaitCancelled(log[n].rep - 1)
            /\ (log[n].op = "callback" \/ IsRepeatAction(log[n]))) =>
            \A w \in WaitingAt(log[n].rep - 1) :
                /\ log[n].t >= log[w].t + dp.isi[log[n].rep] - ISI_ADVANCE
                /\ log[n].op = "acquireSeries" =>
                      log[n].t >= log[w].t + dp.isi[log[n].rep]

C8_Witness ==
    /\ \E n \in 1..Len(log), w \in WaitingAt(0) :
          /\ log[n].op = "set_led"
          /\ log[n].rep = 1
          /\ log[n].val = dynamic_parameters.ir_imaging
          /\ dp.isi[1] > ISI_ADVANCE
          /\ log[n].t = log[w].t + dp.isi[1] - ISI_ADVANCE
    /\ \E n \in 1..Len(log) : log[n].op = "acquireSeries" /\ log[n].rep = 1

(* C10: an error of arming or playback ends the call: the exception is with
   the caller, the failed call was made once, and no repeat after the failed
   one is armed or played. *)
C10_FailureIsFatal ==
    /\ error # "" => pc = "raised"
    /\ (pc = "raised" /\ error \in {"ConnectionRefusedError", "DaqError"}) =>
          /\ \A n \in 1..Len(log) : log[n].rep <= i
          /\ Reps("acquireSeries") = UpTo(Len(Reps("acquireSeries")))
          /\ Reps("play_start") = UpTo(Len(Reps("play_start")))
          /\ Len(Reps("acquireSeries")) \in {i, i + 1}
          /\ Len(Reps("play_done")) = i

C10_Witness ==
    /\ pc = "raised"
    /\ error = "DaqError"
    /\ i = 1
    /\ Repeats = 3
    /\ Reps("acquireSeries") = <<0, 1>>
    /\ Reps("play_done") = <<0>>

(* C9, as claimed: for every shape of 'isi' and 'flash_on' and every
   'repeats', the coercion ends with both parameters lists of exactly
   'repeats' entries: a scalar broadcast, a list of that length unchanged,
   any other list replaced by its first element broadcast. *)
Broadcast(v, n) == [k \in 1..n |-> v]

CoercedAsClaimed(p, out) ==
    /\ Len(out) = Repeats
    /\ p.kind = "scalar" => out = Broadcast(p.val, Repeats)
    /\ (p.kind = "list" /\ Len(p.val) = Repeats) => out = p.val
    /\ (p.kind = "list" /\ Len(p.val) # Repeats) =>
          out = Broadcast(p.val[1], Repeats)

C9_AlwaysCoerced ==
    pc # "coerce" =>
        /\ pc = "describe"
        /\ CoercedAsClaimed(dynamic_parameters.isi, dp.isi)
        /\ CoercedAsClaimed(dynamic_parameters.flash_on, dp.flash_on)

(* C9, amended: the same, for scalars and for lists that are not empty; a
   parameter given as an empty list while 'repeats' is not 0 has no first
   element, and the coercion then raises IndexError instead of going on to
   the repeat loop.  Whenever the loop is reached, both parameters have
   exactly 'repeats' entries. *)
EmptyMismatch(p) == p.kind = "list" /\ Len(p.val) = 0 /\ Repeats # 0

C9_CoercedUnlessEmpty ==
    pc # "coerce" =>
        IF EmptyMismatch(dynamic_parameters.isi)
              \/ EmptyMismatch(dynamic_parameters.flash_on)
        THEN pc = "raised" /\ error = "IndexError"
        ELSE /\ pc = "describe"
             /\ CoercedAsClaimed(dynamic_parameters.isi, dp.isi)
             /\ CoercedAsClaimed(dynamic_parameters.flash_on, dp.flash_on)

C9_Witness ==
    /\ pc = "describe"
    /\ Repeats = 3
    /\ dynamic_parameters.isi = List(<<1, 2>>)
    /\ dp.isi = <<1, 1, 1>>
    /\ dynamic_parameters.flash_on = Scalar(2)
    /\ dp.flash_on = <<2, 2, 2>>

-----------------------------------------------------------------------------
(* C11: while every connection attempt of a sendCommand call has been
   refused, nothing is sent; the call raises exactly when retries + 1
   attempts were refused, and it has then slept the backoff exactly
   'retries' times and for nothing else. *)
C11_RetryBudget ==
    link.refused = link.attempts =>
        /\ link.sent = 0
        /\ link.attempts <= link.retries + 1
        /\ link.pc = "raised" =>
              /\ link.attempts = link.retries + 1
              /\ link.sleeps = link.retries
              /\ now - link.t0 = link.retries * RETRY_INTERVAL
              /\ link.error = "ConnectionRefusedError"
        /\ (link.attempts = link.retries + 1 /\ link.via = "sendCommand") =>
              link.pc = "raised"

C11_Witness ==
    /\ link.via = "sendCommand"
    /\ link.pc = "raised"
    /\ link.retries = 2
    /\ link.attempts = 3
    /\ link.sleeps = 2
    /\ link.sent = 0

(* C12: isServerRunning makes one connection attempt; it returns False when
   that attempt was refused and True when the ping was sent, hands no error
   to its caller and spends no time in a backoff sleep. *)
C12_Ping ==
    link.via = "isServerRunning" =>
        /\ link.attempts <= 1
        /\ link.sleeps = 0
        /\ now = link.t0
        /\ link.pc = "done" =>
              /\ link.error = ""
              /\ link.attempts = 1
              /\ link.result.kind = "bool"
              /\ link.result.val[1] = (link.sent = 1)
              /\ link.result.val[1] = (link.refused = 0)

C12_Witness ==
    /\ link.via = "isServerRunning"
    /\ link.pc = "done"
    /\ link.refused = 1
    /\ link.result = [kind |-> "bool", val |-> <<FALSE>>]

\* The fields put together again with ':' between them.
RECURSIVE Join(_)
Join(fields) ==
    IF Len(fields) = 1 THEN fields[1]
    ELSE fields[1] \o <<":">> \o Join(Tail(fields))

HasColon(text) == \E k \in 1..Len(text) : text[k] = ":"

(* C13: a sendCommand call that has returned gives, with listen, the fields
   of the received text when the text holds a ':' (no field holds a ':',
   and the fields joined by ':' are the text) and the text itself
   otherwise; without listen nothing was received and no value is
   returned. *)
C13_Decoding ==
    (link.via = "sendCommand" /\ link.pc = "returned") =>
        IF link.listen
        THEN IF HasColon(link.response)
             THEN /\ link.result.kind = "fields"
                  /\ Len(link.result.val) >= 2
                  /\ \A k \in 1..Len(link.result.val) :
                        ~HasColon(link.result.val[k])
                  /\ Join(link.result.val) = link.response
             ELSE link.result = [kind |-> "text", val |-> link.response]
        ELSE /\ link.response = <<>>
             /\ link.result.kind = "none"

C13_Witness ==
    /\ link.via = "sendCommand"
    /\ link.pc = "returned"
    /\ link.listen
    /\ link.response = <<"a", ":", ":">>
    /\ link.result = [kind |-> "fields", val |-> <<<<"a">>, <<>>, <<>>>>]

-----------------------------------------------------------------------------
(* Views of the motors used by the properties *)

\* The limits as the callers set them: set_lower_limit stores the lower
\* limit and set_upper_limit the upper one.
LowerLimit(mo) == mo.limits[2]
UpperLimit(mo) == mo.limits[1]

\* The axis has been told to move to a target and its sensor does not show
\* it there yet: the move is in flight.
MovingIn(snap, m) ==
    /\ HasSensor(snap.motors[m])
    /\ snap.target[m].set
    /\ ~InBand(snap.motors[m], snap.sensed[snap.motors[m].i_sensor.at + 1],
               snap.target[m].at)

Moving(m) == MovingIn(Snapshot, m)

\* The last call was move_to on a motor with (or without) a sensor.
MoveToCalled(sensor) ==
    /\ call.op = "move_to"
    /\ HasSensor(call.before.motors[call.motor]) = sensor

\* What the sensor of the called motor showed when the call was made.
SensedBefore ==
    call.before.sensed[call.before.motors[call.motor].i_sensor.at + 1]

(* C14: once a limit has been set, the tracked position of the motor is
   never below its lower limit and never above its upper limit, whatever
   calls are made. *)
C14_WithinLimits ==
    \A m \in MotorIds :
        /\ LowerLimit(motors[m]).inf = 0 =>
              motors[m].position >= LowerLimit(motors[m]).at
        /\ UpperLimit(motors[m]).inf = 0 =>
              motors[m].position <= UpperLimit(motors[m]).at

(* C15: move_to(target) on a motor without a sensor and without limits
   raises nothing, leaves the tracked position at target and, when the
   motor was elsewhere, has issued one pulse towards the target that lasts
   as long as the distance. *)
C15_SensorlessMoveTo ==
    (/\ MoveToCalled(FALSE)
     /\ call.before.motors[call.motor].limits = <<NegInf, PosInf>>) =>
        LET m == call.motor
            d == call.arg[1] - call.before.motors[m].position
        IN /\ call.raised = ""
           /\ motors[m].position = call.arg[1]
           /\ d > 0 => call.pulses = <<Pulse(m, 1, d)>>
           /\ d < 0 => call.pulses = <<Pulse(m, -1, 0 - d)>>

(* C16: move_to(target) on a motor with a sensor, made while no loop runs
   and the sensed position is outside the tolerance band of the target,
   leaves a correction loop to that target running, and reached_target()
   False. *)
C16_MoveToStartsLoop ==
    (/\ MoveToCalled(TRUE)
     /\ call.before.motors[call.motor].thread = None
     /\ ~InBand(call.before.motors[call.motor], SensedBefore, call.arg[1])) =>
        /\ call.raised = ""
        /\ motors[call.motor].thread = <<call.arg[1]>>
        /\ ~ReachedTarget(motors[call.motor])

(* C17: in every state reached_target() of a motor with a sensor is False
   exactly when a move of that motor is in flight. *)
C17_ReachedTargetTracksLoop ==
    \A m \in MotorIds :
        HasSensor(motors[m]) => (ReachedTarget(motors[m]) <=> ~Moving(m))

(* C18: a move_to made while a move of the same motor to another target is
   in flight leaves exactly one correction loop, the one to the new
   target. *)
C18_NewMoveSupersedes ==
    (/\ MoveToCalled(TRUE)
     /\ MovingIn(call.before, call.motor)
     /\ call.before.target[call.motor].at # call.arg[1]
     /\ ~InBand(call.before.motors[call.motor], SensedBefore, call.arg[1])) =>
        motors[call.motor].thread = <<call.arg[1]>>

\* Motor m was away from 0 when the last call was made.
AwayFromZero(m) ==
    LET mo == call.before.motors[m]
    IN IF HasSensor(mo)
       THEN ~InBand(mo, call.before.sensed[mo.i_sensor.at + 1], 0)
       ELSE mo.position # 0

\* The last call has sent motor m on its way to 0.
SentToZero(m) ==
    \/ \E k \in 1..Len(call.pulses) : call.pulses[k].motor = m
    \/ motors[m].thread = <<0>>

(* C19: after finalize, and after the exit handlers, every motor that was
   away from 0 has been sent on its way to 0. *)
C19_ShutdownMovesToZero ==
    call.op \in {"finalize", "atexit"} =>
        \A m \in MotorIds : AwayFromZero(m) => SentToZero(m)

(* C20: a tick issues the moves of a macro step only when no move of the
   horizontal or of the vertical motor is in flight. *)
C20_MacroMovesWhenSettled ==
    (call.op = "tick" /\ call.arg # <<>>) =>
        \A m \in {0, 1} : ~MovingIn(call.before, m)

\* The clock reading of the last tick, which looked at a 'wait N' step and
\* set waittime to that reading plus N seconds (core.py 509).
TickTime == waittime - macro[i_macro + 1].n * TICKS_PER_S

(* C29: a tick leaves the macro at a 'wait N' step only while less than N
   seconds have passed since a tick first looked at that step (give or
   take one unit of the clock). *)
C29_WaitStepEnds ==
    (/\ call.op = "tick"
     /\ macro # <<>>
     /\ step_seen.set
     /\ macro[i_macro + 1].kind = "wait") =>
        TickTime - 1 < step_seen.at + macro[i_macro + 1].n * TICKS_PER_S

(* C30: a sendCommand call sends the command at most once and only after
   the one connection attempt that was accepted, which is its last attempt
   and within the retry budget; when the call has returned the command was
   sent once and the socket is closed; a new call starts with no tries, no
   received text and no result of the call before. *)
C30_OneExchangePerCall ==
    /\ link.sent <= 1
    /\ link.sent = 1 =>
          /\ link.attempts = link.refused + 1
          /\ link.attempts <= link.retries + 1
    /\ link.pc \in {"send", "recv", "decode"} =>
          /\ link.attempts = link.refused + 1
          /\ link.sock = "connected"
    /\ link.pc \in {"returned", "done"} /\ link.refused < link.attempts =>
          /\ link.sent = 1
          /\ link.sock = "closed"
    /\ link.pc = "connect" /\ link.attempts = 0 =>
          /\ link.tries = 0
          /\ link.sent = 0
          /\ link.response = <<>>
          /\ link.result.kind = "none"

C30_Witness ==
    /\ link.via = "sendCommand"
    /\ link.pc = "returned"
    /\ link.calls = 2
    /\ link.retries = 2
    /\ link.refused = 2
    /\ link.attempts = 3
    /\ link.sent = 1
    /\ link.sock = "closed"

(* C27: when the call before was aborted by the callback after a repeat
   had been played, the camera is armed no earlier than the end of that
   playback plus the isi of that repeat. *)
C27_SpacingAfterAbort ==
    spacing_due.set =>
        \A n \in 1..Len(log) :
            log[n].op = "acquireSeries" => log[n].t >= spacing_due.at

(* C26: the label of a repeat holds the goniometer position as it is when
   the label of that repeat is built. *)
C26_LabelFromRepeatPosition ==
    pc = "set_imaging" => trial.label[1] = GetLatest

\* The waveforms given to the last analog_output call have one length.
EqualLengths ==
    \A a, b \in 1..Len(task.stimuli) :
        Len(task.stimuli[a]) = Len(task.stimuli[b])

(* C21: analog_output writes to the device only waveforms of one sample
   count, one row for every channel of the task; given waveforms of
   different sample counts it raises, and has written and started
   nothing. *)
C21_UnequalLengthsRejected ==
    task.op = "analog_output" =>
        /\ task.written # <<>> =>
              /\ EqualLengths
              /\ Len(task.written) = task.ao_channels
              /\ \A k \in 1..Len(task.written) :
                    Len(task.written[k]) = task.samps_per_chan
        /\ ~EqualLengths =>
              /\ task.error = "ValueError"
              /\ task.written = <<>>
              /\ ~task.started

C21_Witness ==
    /\ task.op = "analog_output"
    /\ task.channels = <<ChannelName, ChannelList(2)>>
    /\ task.stimuli = <<<<1>>, <<1, 0>>>>
    /\ task.error = "ValueError"
    /\ task.written = <<>>

(* C22: the timeout of the wait for the end of the playback is 1.5 times
   the sample count divided by the sampling rate. *)
C22_TimeoutIsOneAndAHalfDurations ==
    (task.op = "analog_output" /\ task.started) =>
        task.timeout2 * task.fs = 3 * task.samps_per_chan

-----------------------------------------------------------------------------
(* Views of the stimulus builder used by the properties *)

Getters == {"get_stimulus_pulse", "get_illumination", "get_camera"}

\* The arrays the last call of the builder returned
ArraysReturned ==
    IF builder.op = "get_camera"
    THEN {builder.last.val[k] : k \in 1..Len(builder.last.val)}
    ELSE {builder.last.val}

\* The final value configured for the channel of the last call
FinalValue ==
    IF builder.op = "get_stimulus_pulse" THEN builder.stimulus_finalval
    ELSE IF builder.op = "get_illumination" THEN builder.illumination_finalval
    ELSE 0

\* A tag that is not a known waveform type, or a sweep whose range is not
\* two numbers
InvalidWaveformSpec(wtype) ==
    \/ wtype[1] \notin {"square"} \cup SweepNames
    \/ Len(wtype) > 1 /\ ~(Len(wtype) = 3 /\ IsFloat(wtype[2]) /\ IsFloat(wtype[3]))

(* C23: every array that the builder synthesizes from its timing parameters
   (no recorded stimulus loaded) has round((pre+stim+post)*fs) samples, so
   the stimulus, illumination and trigger arrays have the same length. *)
C23_LengthInvariant ==
    (/\ builder.op \in Getters
     /\ builder.overload_stimulus = None
     /\ builder.last.ret = "value") =>
        \A array \in ArraysReturned :
            Len(array) = Round((builder.prestim_time + builder.stim_time
                                + builder.poststim_time) * builder.fs,
                               HALF_MS_PER_S)

(* C24: the last sample of every array a getter of the builder returns is
   the final value of its channel: stimulus_finalval, illumination_finalval,
   and 0 for a trigger array. *)
C24_FinalValueInvariant ==
    (builder.op \in Getters /\ builder.last.ret = "value") =>
        \A array \in ArraysReturned :
            array # <<>> /\ array[Len(array)] = FinalValue

(* C25: get_stimulus_pulse of a builder whose waveform tag is unknown, or
   whose sweep range is malformed, ends in an exception and returns no
   array. *)
C25_InvalidSpecRaises ==
    (/\ builder.op = "get_stimulus_pulse"
     /\ InvalidWaveformSpec(builder.wtype)) =>
        builder.last.ret = "raise"

\* The last call was a move_to that started a move of motor m: the motor has
\* a sensor, the call returned, and the sensor showed a position outside the
\* tolerance of the target.
StartedMove(m) ==
    /\ MoveToCalled(TRUE)
    /\ call.motor = m
    /\ call.raised = ""
    /\ ~InBand(call.before.motors[m], SensedBefore, call.arg[1])

(* C28: every started move ends: after a move_to that started a move of a
   motor, the sensed position of that motor is eventually within half the
   tolerance of the motor's target. *)
C28_StartedMoveReachesIdle ==
    \A m \in MotorIds : StartedMove(m) ~> ~Moving(m)

\* n copies of a waveform
Copies(waveform, n) == [k \in 1..n |-> waveform]

\* The rows the channels ask for: for every channel entry in order, one copy
\* of its waveform for every physical channel of the entry.
RECURSIVE RowsAskedFor(_, _)
RowsAskedFor(channels, stimuli) ==
    IF channels = <<>> THEN <<>>
    ELSE Copies(Head(stimuli), Head(channels).n)
            \o RowsAskedFor(Tail(channels), Tail(stimuli))

(* C33: the buffer analog_output writes has one row for every physical
   channel added to the task, in channel order, and the row of a channel is
   the waveform of the entry (single channel or group) the channel belongs
   to. *)
C33_GroupRowsAreOwnWaveform ==
    (task.op = "analog_output" /\ task.written # <<>>) =>
        task.written = RowsAskedFor(task.channels, task.stimuli)

(* C32: after currentAsZero, and until the encoder sends a new line,
   getLatest returns (0, 0), whatever the offset was before the call. *)
C32_ZeroAfterCurrentAsZero ==
    call.op = "currentAsZero" => GetLatest = <<0, 0>>

(* C34: two clients created without an explicit port never have the same
   port. *)
C34_DefaultPortsDiffer ==
    \A a, b \in 1..Len(clients) :
        (a < b /\ clients[a].default_port /\ clients[b].default_port) =>
            clients[a].port # clients[b].port

\* The rising edges of a trigger array: the samples above zero that follow a
\* sample at zero, or that come first.
RisingEdges(array) ==
    Cardinality({k \in 1..Len(array) :
                    array[k] > 0 /\ (k = 1 \/ array[k - 1] = 0)})

\* The frame count image_series3 arms on the camera for the timing values
\* the builder was made from.
FramesArmed ==
    NFrames([pre_stim |-> builder.prestim_time, stim |-> builder.stim_time,
             post_stim |-> builder.poststim_time,
             frame_length |-> builder.frame_length])

(* C31: the trigger array synthesized from timing values that are whole
   numbers of samples has as many rising edges as image_series3 arms frames
   on the camera for the same values. *)
C31_ArmedFramesAreTriggerEdges ==
    (/\ builder.op = "get_camera"
     /\ builder.overload_stimulus = None
     /\ builder.last.ret = "value") =>
        RisingEdges(builder.last.val[1]) = FramesArmed

====
